---- MODULE Spec2Model ----
(***************************************************************************)
(* A model of cocoonmail-go: the request builder and the region router of  *)
(* cocoonmail.go, and the payload builder and the address validator of     *)
(* helpers/mail/main.go.                                                   *)
(*                                                                         *)
(* A Go string whose bytes matter (a URL, an e-mail address) is a sequence *)
(* of one-character strings; a Go string that is only copied, compared or  *)
(* concatenated (an API key, a region identifier, a header value) is a     *)
(* TLA+ string. A Go error is a sequence of words, nil the empty sequence. *)
(***************************************************************************)
EXTENDS Naturals, Sequences, FiniteSets, TLC

VARIABLES
    request,     \* cocoonmail.go: the rest.Request the caller holds
    err,         \* cocoonmail.go: the error the last call returned
    call,        \* cocoonmail.go: the last call made and its arguments
    m,           \* mail: the *MailSendRequest under construction
    calls,       \* mail: the builder calls made on m so far, in order
    emailInfo,   \* mail: the argument of ParseEmail
    parsed       \* mail: what ParseEmail returned for emailInfo

vars == <<request, err, call, m, calls, emailInfo, parsed>>

requestVars == <<request, err, call>>
mailVars == <<m, calls>>
emailVars == <<emailInfo, parsed>>

----------------------------------------------------------------------------
(* Bytes and strings *)

nil == <<>>

Lower == {"a", "b", "c", "d", "e", "f", "g", "h", "i", "j", "k", "l", "m",
          "n", "o", "p", "q", "r", "s", "t", "u", "v", "w", "x", "y", "z"}

Upper == {"A", "B", "C", "D", "E", "F", "G", "H", "I", "J", "K", "L", "M",
          "N", "O", "P", "Q", "R", "S", "T", "U", "V", "W", "X", "Y", "Z"}

Digit == {"0", "1", "2", "3", "4", "5", "6", "7", "8", "9"}

HexLower == <<"0", "1", "2", "3", "4", "5", "6", "7", "8", "9",
              "a", "b", "c", "d", "e", "f">>

HexUpper == <<"0", "1", "2", "3", "4", "5", "6", "7", "8", "9",
              "A", "B", "C", "D", "E", "F">>

\* The bytes 0x20..0x7E, in order (0x60 by its token: the lexer rejects it).
Printable ==
    <<" ", "!", "\"", "#", "$", "%", "&", "'", "(", ")", "*", "+", ",", "-", ".",
      "/", "0", "1", "2", "3", "4", "5", "6", "7", "8", "9", ":", ";", "<", "=",
      ">", "?", "@", "A", "B", "C", "D", "E", "F", "G", "H", "I", "J", "K", "L",
      "M", "N", "O", "P", "Q", "R", "S", "T", "U", "V", "W", "X", "Y", "Z", "[",
      "\\", "]", "^", "_", "\\x60", "a", "b", "c", "d", "e", "f", "g", "h", "i", "j",
      "k", "l", "m", "n", "o", "p", "q", "r", "s", "t", "u", "v", "w", "x", "y",
      "z", "{", "|", "}", "~">>

\* The byte of value n: itself when printable, the token \xHH otherwise.
Chr(n) ==
    IF n >= 32 /\ n <= 126
    THEN Printable[n - 31]
    ELSE "\\x" \o HexUpper[(n \div 16) + 1] \o HexUpper[(n % 16) + 1]

\* net/url ishex, unhex
ishex(c) == \E i \in 1..16 : c = HexLower[i] \/ c = HexUpper[i]

unhex(c) == (CHOOSE i \in 1..16 : c = HexLower[i] \/ c = HexUpper[i]) - 1

\* net/url stringContainsCTLByte: a byte below 0x20, or 0x7F
CTLBytes == {Chr(n) : n \in 0..31} \cup {Chr(127)}

stringContainsCTLByte(s) == \E i \in 1..Len(s) : s[i] \in CTLBytes

\* The least and the greatest element of a set of numbers, 0 for none
First(S) == IF S = {} THEN 0 ELSE CHOOSE i \in S : \A j \in S : i <= j

Last(S) == IF S = {} THEN 0 ELSE CHOOSE i \in S : \A j \in S : i >= j

\* strings.Index, strings.LastIndex (1-based; 0 when c does not occur)
Occurrences(s, c) == {i \in 1..Len(s) : s[i] = c}

Index(s, c) == First(Occurrences(s, c))

LastIndex(s, c) == Last(Occurrences(s, c))

\* s[:i-1] and s[i+1:] around the byte at i; all of s and nothing when i = 0
Upto(s, i) == IF i = 0 THEN s ELSE SubSeq(s, 1, i - 1)

From(s, i) == IF i = 0 THEN <<>> ELSE SubSeq(s, i + 1, Len(s))

\* strings.Cut(s, c): before, after
Before(s, c) == Upto(s, Index(s, c))

After(s, c) == From(s, Index(s, c))

HasPrefix(s, p) == Len(s) >= Len(p) /\ SubSeq(s, 1, Len(p)) = p

\* All sequences over S of length at most n
RECURSIVE SeqsUpTo(_, _)
SeqsUpTo(S, n) ==
    IF n = 0 THEN {<<>>}
    ELSE LET shorter == SeqsUpTo(S, n - 1)
         IN  shorter \cup {Append(s, c) : s \in shorter, c \in S}

----------------------------------------------------------------------------
(* net/url: url.Parse, as far as extractEndpoint observes it.  The URLs of  *)
(* the model hold no "@" and no "[", so of parseAuthority only the host     *)
(* without userinfo, and of parseHost only the reg-name with an optional    *)
(* port, are modelled.                                                      *)

ASCII == {Chr(n) : n \in 0..127}

\* shouldEscape(c, encodeHost)
shouldEscapeHost(c) ==
    c \notin Lower \cup Upper \cup Digit
               \cup {"!", "$", "&", "'", "(", ")", "*", "+", ",", ";", "=",
                     ":", "[", "]", "<", ">", "\""}
               \cup {"-", "_", ".", "~"}

\* unescape, first pass: the byte at i makes unescape fail
Offending(s, i, mode) ==
    IF s[i] = "%"
    THEN \/ i + 2 > Len(s)
         \/ ~ishex(s[i + 1])
         \/ ~ishex(s[i + 2])
         \/ /\ mode = "encodeHost"
            /\ unhex(s[i + 1]) < 8
            /\ SubSeq(s, i, i + 2) # <<"%", "2", "5">>
    ELSE /\ mode = "encodeHost"
         /\ s[i] \in ASCII
         /\ shouldEscapeHost(s[i])

\* unescape, second pass: every %XX replaced by the byte it names ("+" is
\* kept in every mode but encodeQueryComponent, which Parse does not use)
RECURSIVE Decode(_)
Decode(s) ==
    IF s = <<>> THEN <<>>
    ELSE IF s[1] = "%"
    THEN <<Chr(16 * unhex(s[2]) + unhex(s[3]))>> \o Decode(SubSeq(s, 4, Len(s)))
    ELSE <<s[1]>> \o Decode(SubSeq(s, 2, Len(s)))

unescape(s, mode) ==
    LET Found(first) ==
            IF first = 0 THEN [err |-> nil, val |-> Decode(s)]
            ELSE IF s[first] = "%"
            THEN [err |-> <<"invalid", "URL", "escape">>, val |-> <<>>]
            ELSE [err |-> <<"invalid", "character", "in", "host", "name">>,
                  val |-> <<>>]
    IN  Found(First({i \in 1..Len(s) : Offending(s, i, mode)}))

\* getScheme: the scheme, the rest after its colon, and an error
getScheme(rawURL) ==
    LET Stopped(k) ==
            IF k = 0 THEN [scheme |-> <<>>, path |-> rawURL, err |-> nil]
            ELSE IF rawURL[k] # ":"
            THEN [scheme |-> <<>>, path |-> rawURL, err |-> nil]
            ELSE IF k = 1
            THEN [scheme |-> <<>>, path |-> <<>>,
                  err |-> <<"missing", "protocol", "scheme">>]
            ELSE [scheme |-> SubSeq(rawURL, 1, k - 1),
                  path |-> SubSeq(rawURL, k + 1, Len(rawURL)), err |-> nil]
    IN  Stopped(First({i \in 1..Len(rawURL) :
                          /\ rawURL[i] \notin Lower \cup Upper
                          /\ ~(rawURL[i] \in Digit \cup {"+", "-", "."}
                               /\ i > 1)}))

\* validOptionalPort
validOptionalPort(port) ==
    \/ port = <<>>
    \/ /\ port[1] = ":"
       /\ \A i \in 2..Len(port) : port[i] \in Digit

\* parseHost
parseHost(host) ==
    LET Colon(i) ==
            IF i # 0 /\ ~validOptionalPort(SubSeq(host, i, Len(host)))
            THEN [err |-> <<"invalid", "port", "after", "host">>,
                  val |-> <<>>]
            ELSE unescape(host, "encodeHost")
    IN  Colon(LastIndex(host, ":"))

\* parseAuthority, for an authority without userinfo
parseAuthority(authority) == parseHost(authority)

NoURL == [Opaque |-> <<>>, Host |-> <<>>, Path |-> <<>>, RawQuery |-> <<>>,
          Fragment |-> <<>>]

\* parse, after the authority: setPath
parsePath(host, rest, rawQuery) ==
    LET Unescaped(path) ==
            IF path.err # nil THEN [err |-> path.err, url |-> NoURL]
            ELSE [err |-> nil,
                  url |-> [NoURL EXCEPT !.Host = host, !.Path = path.val,
                                        !.RawQuery = rawQuery]]
    IN  Unescaped(unescape(rest, "encodePath"))

\* parse, after the query is cut off: an opaque URL, a relative path, or an
\* authority and a path
parseHier(scheme, rest, rawQuery) ==
    LET Authority(afterSlashes, slash) ==
            LET Host(host) ==
                    IF host.err # nil THEN [err |-> host.err, url |-> NoURL]
                    ELSE parsePath(host.val,
                                   IF slash = 0 THEN <<>>
                                   ELSE SubSeq(afterSlashes, slash,
                                               Len(afterSlashes)),
                                   rawQuery)
            IN  Host(parseAuthority(Upto(afterSlashes, slash)))
    IN  IF ~HasPrefix(rest, <<"/">>) /\ scheme # <<>>
        THEN [err |-> nil,
              url |-> [NoURL EXCEPT !.Opaque = rest, !.RawQuery = rawQuery]]
        ELSE IF /\ ~HasPrefix(rest, <<"/">>)
                /\ ":" \in {rest[i] : i \in 1..Len(Before(rest, "/"))}
        THEN [err |-> <<"first", "path", "segment", "in", "URL", "cannot",
                        "contain", "colon">>, url |-> NoURL]
        ELSE IF /\ scheme # <<>> \/ ~HasPrefix(rest, <<"/", "/", "/">>)
                /\ HasPrefix(rest, <<"/", "/">>)
        THEN Authority(SubSeq(rest, 3, Len(rest)),
                       Index(SubSeq(rest, 3, Len(rest)), "/"))
        ELSE parsePath(<<>>, rest, rawQuery)

\* parse(rawURL, viaRequest = false)
parse(rawURL) ==
    LET Scheme(sch) ==
            IF sch.err # nil THEN [err |-> sch.err, url |-> NoURL]
            ELSE IF /\ sch.path # <<>>
                    /\ sch.path[Len(sch.path)] = "?"
                    /\ Cardinality(Occurrences(sch.path, "?")) = 1
            THEN parseHier(sch.scheme, SubSeq(sch.path, 1, Len(sch.path) - 1),
                           <<>>)
            ELSE parseHier(sch.scheme, Before(sch.path, "?"),
                           After(sch.path, "?"))
    IN  IF stringContainsCTLByte(rawURL)
        THEN [err |-> <<"net/url:", "invalid", "control", "character", "in",
                        "URL">>, url |-> NoURL]
        ELSE IF rawURL = <<"*">>
        THEN [err |-> nil, url |-> [NoURL EXCEPT !.Path = <<"*">>]]
        ELSE Scheme(getScheme(rawURL))

\* url.Parse: the fragment is cut off first and unescaped last
Parse(rawURL) ==
    LET Parsed(res, frag) ==
            LET Fragment(fragment) ==
                    IF fragment.err # nil
                    THEN [err |-> <<"parse">> \o fragment.err, url |-> NoURL]
                    ELSE [err |-> nil,
                          url |-> [res.url EXCEPT !.Fragment = fragment.val]]
            IN  IF res.err # nil
                THEN [err |-> <<"parse">> \o res.err, url |-> NoURL]
                ELSE IF frag = <<>> THEN res
                ELSE Fragment(unescape(frag, "encodeFragment"))
    IN  Parsed(parse(Before(rawURL, "#")), After(rawURL, "#"))

----------------------------------------------------------------------------
(* cocoonmail.go *)

\* Bounds of the model
MaxEndpointTail == 3

Keys == {"", "abc123"}

Subusers == {"", "sub1"}

DefaultHost ==
    <<"h", "t", "t", "p", "s", ":", "/", "/", "w", "e", "b", "h", "o", "o", "k",
      ".", "c", "o", "c", "o", "o", "n", "m", "a", "i", "l", ".", "c", "o", "m">>

EUHost ==
    <<"h", "t", "t", "p", "s", ":", "/", "/", "a", "p", "i", ".", "e", "u", ".",
      "c", "o", "c", "o", "o", "n", "m", "a", "i", "l", ".", "c", "o", "m">>

MailSendEndpoint ==
    <<"/", "w", "e", "b", "h", "o", "o", "k", "/", "m", "a", "i", "l", "/", "s",
      "e", "n", "d">>

\* The hosts a caller passes: none, or an alternate endpoint to test against
Hosts == {<<>>, <<"h", "t", "t", "p", ":", "/", "/", "h", ":", "3">>}

\* The endpoints a caller passes: a "/" followed by at most MaxEndpointTail
\* of these bytes
EndpointBytes == {"/", "%", "2", "3", "5", "F", "?", "#"}

Endpoints == {<<"/">> \o t : t \in SeqsUpTo(EndpointBytes, MaxEndpointTail)}

\* The region identifiers a caller passes
Regions == {"eu", "global", "us", "EU", ""}

allowedRegionsHostMap == [r \in {"eu", "global"} |->
                              IF r = "eu" THEN EUHost ELSE DefaultHost]

\* requestNew (base_interface.go, not among the sources): the Authorization
\* header, the on-behalf-of header for a subuser, and the base URL
requestNew(options) ==
    [Method |-> "",
     BaseURL |-> options.Host \o options.Endpoint,
     Headers |-> IF options.Subuser # ""
                 THEN [h \in {"Authorization", "On-Behalf-Of"} |->
                          IF h = "Authorization" THEN options.Auth
                          ELSE options.Subuser]
                 ELSE [h \in {"Authorization"} |-> options.Auth],
     Body |-> <<>>]

\* A faulty createCocoonmailRequest: the key alone as the Authorization
createCocoonmailRequest_KeyOnly(sgOptions) ==
    LET options == [Auth |-> sgOptions.Key,
                    Endpoint |-> sgOptions.Endpoint,
                    Host |-> sgOptions.Host,
                    Subuser |-> sgOptions.Subuser]
    IN  requestNew(IF options.Host = <<>>
                   THEN [options EXCEPT !.Host = DefaultHost]
                   ELSE options)

\* A faulty createCocoonmailRequest: an empty host is left empty
createCocoonmailRequest_NoDefaultHost(sgOptions) ==
    requestNew([Auth |-> "Bearer " \o sgOptions.Key,
                Endpoint |-> sgOptions.Endpoint,
                Host |-> sgOptions.Host,
                Subuser |-> sgOptions.Subuser])

createCocoonmailRequest(sgOptions) ==
    LET options == [Auth |-> "Bearer " \o sgOptions.Key,
                    Endpoint |-> sgOptions.Endpoint,
                    Host |-> sgOptions.Host,
                    Subuser |-> sgOptions.Subuser]
    IN  requestNew(IF options.Host = <<>>
                   THEN [options EXCEPT !.Host = DefaultHost]
                   ELSE options)

GetRequest(key, endpoint, host) ==
    createCocoonmailRequest(
        [Key |-> key, Endpoint |-> endpoint, Host |-> host, Subuser |-> ""])

\* A faulty GetRequestSubuser: the subuser is not passed on
GetRequestSubuser_DropsSubuser(key, endpoint, host, subuser) ==
    createCocoonmailRequest(
        [Key |-> key, Endpoint |-> endpoint, Host |-> host, Subuser |-> ""])

GetRequestSubuser(key, endpoint, host, subuser) ==
    createCocoonmailRequest(
        [Key |-> key, Endpoint |-> endpoint, Host |-> host,
         Subuser |-> subuser])

\* NewSendClient: the request the returned Client wraps
NewSendClient(key) ==
    [GetRequest(key, MailSendEndpoint, <<>>) EXCEPT !.Method = "POST"]

extractEndpoint(link) ==
    LET Parsed(res) ==
            IF res.err # nil THEN [endpoint |-> <<>>, err |-> res.err]
            ELSE [endpoint |-> res.url.Path, err |-> nil]
    IN  Parsed(Parse(link))

RegionError ==
    <<"error:", "region", "can", "only", "be", "\"eu\"", "or", "\"global\"">>

\* No request built yet, no call made yet
NoRequest == [Method |-> "", BaseURL |-> <<>>,
              Headers |-> [h \in {} |-> ""], Body |-> <<>>]

NoCall == [op |-> "none"]

\* A faulty SetDataResidency: an empty request beside the region error
SetDataResidency_EmptyOnError(req, region) ==
    LET Extracted(regionalHost, ext) ==
            IF ext.err # nil THEN [request |-> req, err |-> ext.err]
            ELSE [request |-> [req EXCEPT
                                  !.BaseURL = regionalHost \o ext.endpoint],
                  err |-> nil]
    IN  IF region \notin DOMAIN allowedRegionsHostMap
        THEN [request |-> NoRequest, err |-> RegionError]
        ELSE Extracted(allowedRegionsHostMap[region],
                       extractEndpoint(req.BaseURL))

SetDataResidency(req, region) ==
    LET Extracted(regionalHost, ext) ==
            IF ext.err # nil THEN [request |-> req, err |-> ext.err]
            ELSE [request |-> [req EXCEPT
                                  !.BaseURL = regionalHost \o ext.endpoint],
                  err |-> nil]
    IN  IF region \notin DOMAIN allowedRegionsHostMap
        THEN [request |-> req, err |-> RegionError]
        ELSE Extracted(allowedRegionsHostMap[region],
                       extractEndpoint(req.BaseURL))

CallGetRequest ==
    /\ call = NoCall
    /\ \E key \in Keys, endpoint \in Endpoints, host \in Hosts :
           /\ request' = GetRequest(key, endpoint, host)
           /\ err' = nil
           /\ call' = [op |-> "GetRequest", key |-> key, endpoint |-> endpoint,
                       host |-> host, subuser |-> ""]
           /\ UNCHANGED <<mailVars, emailVars>>

CallGetRequestSubuser ==
    /\ call = NoCall
    /\ \E key \in Keys, endpoint \in Endpoints, host \in Hosts,
          subuser \in Subusers :
           /\ request' = GetRequestSubuser(key, endpoint, host, subuser)
           /\ err' = nil
           /\ call' = [op |-> "GetRequestSubuser", key |-> key,
                       endpoint |-> endpoint, host |-> host, subuser |-> subuser]
           /\ UNCHANGED <<mailVars, emailVars>>

CallNewSendClient ==
    /\ call = NoCall
    /\ \E key \in Keys :
           /\ request' = NewSendClient(key)
           /\ err' = nil
           /\ call' = [op |-> "NewSendClient", key |-> key,
                       endpoint |-> MailSendEndpoint, host |-> <<>>,
                       subuser |-> ""]
           /\ UNCHANGED <<mailVars, emailVars>>

\* request, err = SetDataResidency(request, region)
CallSetDataResidency ==
    \E region \in Regions :
        \E res \in {SetDataResidency(request, region)} :
            /\ request' = res.request
            /\ err' = res.err
            /\ call' = [op |-> "SetDataResidency", request |-> request,
                        region |-> region]
            /\ UNCHANGED <<mailVars, emailVars>>

----------------------------------------------------------------------------
(* helpers/mail/main.go: the payload builder.  A Go slice is a record of   *)
(* whether it is nil and of its items, a Go map a record of whether it is  *)
(* nil and of its key/value function; a pointer is the name of what it     *)
(* points to.                                                              *)

\* Bound of the model: the builder calls made on one request
MaxCalls == 3

\* A faulty make: the nil slice of "var s []T"
makeSlice_Nil == [isNil |-> TRUE, items |-> <<>>]

\* make([]T, 0)
makeSlice == [isNil |-> FALSE, items |-> <<>>]

\* append(s, xs...): appending nothing returns s itself, nil or not
append(s, xs) ==
    IF xs = <<>> THEN s ELSE [isNil |-> FALSE, items |-> s.items \o xs]

\* make(map[string]interface{})
makeMap == [isNil |-> FALSE, kv |-> [k \in {} |-> 0]]

\* mp[key] = value, on a map that is not nil
mapSet(mp, key, value) ==
    [mp EXCEPT !.kv = [k \in DOMAIN mp.kv \cup {key} |->
                          IF k = key THEN value ELSE mp.kv[k]]]

\* The arguments the callers pass
RecipientLists == {<<>>, <<"r1">>, <<"r2">>, <<"r1", "r2">>, <<"r2", "r1">>}

AttachmentLists == {<<>>, <<"a1">>, <<"a1", "a2">>}

RemoteLists == {<<>>, <<"l1">>, <<"l2", "l1">>}

ParamKeys == {"k1", "k2"}

ParamValues == {"v1", "v2"}

Addresses == {"reply@example.com"}

Times == {"2026-01-02T03:04:05Z"}

NewMailSendRequest ==
    [TransactionalID |-> "",
     To |-> makeSlice,
     ReplyTo |-> "",
     CustomParameter |-> makeMap,
     Attachments |-> makeSlice,
     AttachmentsRemote |-> makeSlice,
     AddEmailAddressToContact |-> FALSE,
     ScheduledAt |-> "",
     AllowClickTracking |-> FALSE,
     AllowOpenTracking |-> FALSE,
     BypassBounceControl |-> FALSE,
     BypassUnsubscribeList |-> FALSE,
     EnableViewInBrowser |-> FALSE]

\* A faulty AddRecipient: the recipients replace those already there
AddRecipient_Overwrites(req, recipients) ==
    [req EXCEPT !.To = append(makeSlice, recipients)]

AddRecipient(req, recipients) ==
    [req EXCEPT !.To = append(req.To, recipients)]

AddAttachment(req, att) ==
    [req EXCEPT !.Attachments = append(req.Attachments, att)]

AddRemoteAttachment(req, rem) ==
    [req EXCEPT !.AttachmentsRemote = append(req.AttachmentsRemote, rem)]

SetReplyTo(req, replyTo) == [req EXCEPT !.ReplyTo = replyTo]

SetCustomParameter(req, key, value) ==
    [req EXCEPT !.CustomParameter = mapSet(req.CustomParameter, key, value)]

SetScheduledAt(req, scheduledAt) == [req EXCEPT !.ScheduledAt = scheduledAt]

SetAllowClickTracking(req, enable) ==
    [req EXCEPT !.AllowClickTracking = enable]

SetAllowOpenTracking(req, enable) ==
    [req EXCEPT !.AllowOpenTracking = enable]

SetBypassBounceControl(req, enable) ==
    [req EXCEPT !.BypassBounceControl = enable]

SetBypassUnsubscribeList(req, enable) ==
    [req EXCEPT !.BypassUnsubscribeList = enable]

SetEnableViewInBrowser(req, enable) ==
    [req EXCEPT !.EnableViewInBrowser = enable]

\* One builder call on m: the request after it, and its entry in calls
Called(after, method, args) ==
    /\ Len(calls) < MaxCalls
    /\ m' = after
    /\ calls' = Append(calls, [method |-> method, args |-> args])
    /\ UNCHANGED <<requestVars, emailVars>>

CallAddRecipient ==
    \E recipients \in RecipientLists :
        Called(AddRecipient(m, recipients), "AddRecipient", recipients)

CallAddAttachment ==
    \E att \in AttachmentLists :
        Called(AddAttachment(m, att), "AddAttachment", att)

CallAddRemoteAttachment ==
    \E rem \in RemoteLists :
        Called(AddRemoteAttachment(m, rem), "AddRemoteAttachment", rem)

CallSetReplyTo ==
    \E replyTo \in Addresses :
        Called(SetReplyTo(m, replyTo), "SetReplyTo", <<replyTo>>)

CallSetCustomParameter ==
    \E key \in ParamKeys, value \in ParamValues :
        Called(SetCustomParameter(m, key, value), "SetCustomParameter",
               <<key, value>>)

CallSetScheduledAt ==
    \E scheduledAt \in Times :
        Called(SetScheduledAt(m, scheduledAt), "SetScheduledAt",
               <<scheduledAt>>)

CallSetAllowClickTracking ==
    \E enable \in BOOLEAN :
        Called(SetAllowClickTracking(m, enable), "SetAllowClickTracking",
               <<enable>>)

CallSetAllowOpenTracking ==
    \E enable \in BOOLEAN :
        Called(SetAllowOpenTracking(m, enable), "SetAllowOpenTracking",
               <<enable>>)

CallSetBypassBounceControl ==
    \E enable \in BOOLEAN :
        Called(SetBypassBounceControl(m, enable), "SetBypassBounceControl",
               <<enable>>)

CallSetBypassUnsubscribeList ==
    \E enable \in BOOLEAN :
        Called(SetBypassUnsubscribeList(m, enable),
               "SetBypassUnsubscribeList", <<enable>>)

CallSetEnableViewInBrowser ==
    \E enable \in BOOLEAN :
        Called(SetEnableViewInBrowser(m, enable), "SetEnableViewInBrowser",
               <<enable>>)

----------------------------------------------------------------------------
(* net/mail: mail.ParseAddress, as far as ParseEmail observes it.  The     *)
(* addresses of the model hold no backslash, "(", "[", ":", "," or "=?",   *)
(* so quoted pairs, comments, domain literals, groups and encoded words    *)
(* are not modelled.  A consume* operator returns its error, its value and *)
(* the input left.                                                         *)

\* isVchar: visible printing bytes
VChars == {Printable[i] : i \in 2..Len(Printable)}

\* RFC 5322 3.2.3 specials
Specials == {"(", ")", "<", ">", "[", "]", ":", ";", "@", "\\", ",", "\""}

isAtext(c, dot) ==
    IF c = "." THEN dot ELSE c \notin Specials /\ c \in VChars

Failed(words, s) == [err |-> words, val |-> <<>>, rest |-> s]

\* skipSpace: s without its leading spaces
skipSpace(s) ==
    LET Other(i) == IF i = 0 THEN <<>> ELSE SubSeq(s, i, Len(s))
    IN  Other(First({i \in 1..Len(s) : s[i] # " "}))

\* consumeAtom(dot = true, permissive)
consumeAtom(s, permissive) ==
    LET Atom(i) ==
            IF i = 0 THEN Failed(<<"mail:", "invalid", "string">>, s)
            ELSE IF ~permissive /\ s[1] = "."
            THEN Failed(<<"mail:", "leading", "dot", "in", "atom">>, s)
            ELSE IF /\ ~permissive
                    /\ \E k \in 1..(i - 1) : s[k] = "." /\ s[k + 1] = "."
            THEN Failed(<<"mail:", "double", "dot", "in", "atom">>, s)
            ELSE IF ~permissive /\ s[i] = "."
            THEN Failed(<<"mail:", "trailing", "dot", "in", "atom">>, s)
            ELSE [err |-> nil, val |-> SubSeq(s, 1, i),
                  rest |-> SubSeq(s, i + 1, Len(s))]
        Stop(k) == Atom(IF k = 0 THEN Len(s) ELSE k - 1)
    IN  Stop(First({i \in 1..Len(s) : ~isAtext(s[i], TRUE)}))

\* consumeQuotedString: s begins with a double quote; qtext and spaces up to
\* the closing quote
consumeQuotedString(s) ==
    LET Close(body, close) ==
            IF close = 0
            THEN Failed(<<"mail:", "unclosed", "quoted-string">>, s)
            ELSE IF \E k \in 1..(close - 1) : body[k] \notin VChars \cup {" "}
            THEN Failed(<<"mail:", "bad", "character", "in",
                          "quoted-string">>, s)
            ELSE [err |-> nil, val |-> SubSeq(body, 1, close - 1),
                  rest |-> SubSeq(body, close + 1, Len(body))]
    IN  Close(SubSeq(s, 2, Len(s)), Index(SubSeq(s, 2, Len(s)), "\""))

\* consumeAddrSpec, the local part: a quoted string or a dot-atom
consumeLocalPart(s) ==
    LET Quoted(quoted) ==
            IF quoted.err = nil /\ quoted.val = <<>>
            THEN Failed(<<"mail:", "empty", "quoted", "string", "in",
                          "addr-spec">>, s)
            ELSE quoted
    IN  IF s[1] = "\"" THEN Quoted(consumeQuotedString(s))
        ELSE consumeAtom(s, FALSE)

\* consumeAddrSpec: local-part "@" domain; on an error nothing is consumed
consumeAddrSpec(s0) ==
    LET Domain(localPart, domain) ==
            IF domain.err # nil THEN Failed(domain.err, s0)
            ELSE [err |-> nil, val |-> localPart.val \o <<"@">> \o domain.val,
                  rest |-> domain.rest]
        At(localPart, afterAt) ==
            IF afterAt = <<>>
            THEN Failed(<<"mail:", "no", "domain", "in", "addr-spec">>, s0)
            ELSE Domain(localPart, consumeAtom(afterAt, FALSE))
        Local(localPart) ==
            IF localPart.err # nil THEN Failed(localPart.err, s0)
            ELSE IF localPart.rest = <<>> \/ localPart.rest[1] # "@"
            THEN Failed(<<"mail:", "missing", "@", "in", "addr-spec">>, s0)
            ELSE At(localPart, skipSpace(Tail(localPart.rest)))
        Start(s) ==
            IF s = <<>> THEN Failed(<<"mail:", "no", "addr-spec">>, s0)
            ELSE Local(consumeLocalPart(s))
    IN  Start(skipSpace(s0))

\* consumePhrase, its loop: the words up to the first thing that is no word
RECURSIVE consumeWords(_, _)
consumeWords(s0, words) ==
    LET Word(s, word) ==
            IF word.err # nil
            THEN [err |-> word.err, words |-> words, rest |-> s]
            ELSE consumeWords(word.rest, Append(words, word.val))
        Start(s) ==
            IF s = <<>> THEN [err |-> nil, words |-> words, rest |-> s]
            ELSE IF s[1] = "\"" THEN Word(s, consumeQuotedString(s))
            ELSE Word(s, consumeAtom(s, TRUE))
    IN  Start(skipSpace(s0))

\* strings.Join(words, " ")
RECURSIVE Join(_)
Join(words) ==
    IF words = <<>> THEN <<>>
    ELSE IF Len(words) = 1 THEN words[1]
    ELSE words[1] \o <<" ">> \o Join(Tail(words))

\* consumePhrase: an error is ignored once there is a word
consumePhrase(s) ==
    LET Words(res) ==
            IF res.err # nil /\ res.words = <<>>
            THEN Failed(<<"mail:", "missing", "word", "in", "phrase">>,
                        res.rest)
            ELSE [err |-> nil, val |-> Join(res.words), rest |-> res.rest]
    IN  Words(consumeWords(s, <<>>))

NoAddress == [Name |-> <<>>, Address |-> <<>>]

\* parseAddress, the name-addr: display name, "<", addr-spec, ">"
parseNameAddr(s) ==
    LET Angle(name, angle) ==
            IF angle.err # nil
            THEN [err |-> angle.err, addr |-> NoAddress, rest |-> s]
            ELSE IF angle.rest = <<>> \/ angle.rest[1] # ">"
            THEN [err |-> <<"mail:", "unclosed", "angle-addr">>,
                  addr |-> NoAddress, rest |-> s]
            ELSE [err |-> nil,
                  addr |-> [Name |-> name, Address |-> angle.val],
                  rest |-> Tail(angle.rest)]
        Named(name, afterName) ==
            IF afterName = <<>> \/ afterName[1] # "<"
            THEN [err |-> IF \A k \in 1..Len(name) : isAtext(name[k], TRUE)
                          THEN <<"mail:", "missing", "'@'", "or",
                                 "angle-addr">>
                          ELSE <<"mail:", "no", "angle-addr">>,
                  addr |-> NoAddress, rest |-> s]
            ELSE Angle(name, consumeAddrSpec(Tail(afterName)))
        Phrase(phrase) ==
            IF phrase.err # nil
            THEN [err |-> phrase.err, addr |-> NoAddress, rest |-> s]
            ELSE Named(phrase.val, skipSpace(phrase.rest))
    IN  IF s[1] # "<" THEN Phrase(consumePhrase(s))
        ELSE Phrase([err |-> nil, val |-> <<>>, rest |-> s])

\* parseAddress(handleGroup = true): addr-spec first, name-addr otherwise
parseAddress(s0) ==
    LET AddrSpec(s, spec) ==
            IF spec.err = nil
            THEN [err |-> nil, addr |-> [Name |-> <<>>, Address |-> spec.val],
                  rest |-> skipSpace(spec.rest)]
            ELSE parseNameAddr(s)
        Start(s) ==
            IF s = <<>>
            THEN [err |-> <<"mail:", "no", "address">>, addr |-> NoAddress,
                  rest |-> s]
            ELSE AddrSpec(s, consumeAddrSpec(s))
    IN  Start(skipSpace(s0))

\* mail.ParseAddress: parseSingleAddress
ParseAddress(address) ==
    LET Single(res) ==
            IF res.err # nil THEN [err |-> res.err, addr |-> NoAddress]
            ELSE IF skipSpace(res.rest) # <<>>
            THEN [err |-> <<"mail:", "expected", "single", "address">>,
                  addr |-> NoAddress]
            ELSE [err |-> nil, addr |-> res.addr]
    IN  Single(parseAddress(address))

----------------------------------------------------------------------------
(* helpers/mail/main.go: the address validator *)

maxEmailDomainLength == 255

maxEmailLocalLength == 64

maxEmailLength == maxEmailDomainLength + maxEmailLocalLength + 1

\* strings.Split(s, sep)
RECURSIVE Split(_, _)
Split(s, sep) ==
    LET At(i) == IF i = 0 THEN <<s>>
                 ELSE <<Upto(s, i)>> \o Split(From(s, i), sep)
    IN  At(Index(s, sep))

nilRecipient == [isNil |-> TRUE]

NewMailRecipient(name, email) ==
    [isNil |-> FALSE, Email |-> email, Name |-> name,
     Attributes |-> makeMap, Lists |-> makeSlice, Tags |-> makeSlice]

TotalLengthError ==
    <<"Invalid", "email", "length.", "Total", "length", "should", "not",
      "exceed", ToString(maxEmailLength), "characters.">>

DomainLengthError ==
    <<"Invalid", "email", "length.", "Domain", "length", "should", "not",
      "exceed", ToString(maxEmailDomainLength), "characters.">>

LocalLengthError ==
    <<"Invalid", "email", "length.", "Local", "part", "length", "should",
      "not", "exceed", ToString(maxEmailLocalLength), "characters.">>

\* ParseEmail: the recipient and the error it returns, and the local and
\* domain it split the address into (empty when it returned before the split)
ParseEmail(info) ==
    LET Split2(e, local, domain) ==
            IF Len(domain) > maxEmailDomainLength
            THEN [recipient |-> nilRecipient, err |-> DomainLengthError,
                  local |-> local, domain |-> domain]
            ELSE IF Len(local) > maxEmailLocalLength
            THEN [recipient |-> nilRecipient, err |-> LocalLengthError,
                  local |-> local, domain |-> domain]
            ELSE [recipient |-> NewMailRecipient(e.addr.Name, e.addr.Address),
                  err |-> nil, local |-> local, domain |-> domain]
        Parts(e, parts) == Split2(e, parts[1], parts[2])
        Parsed(e) ==
            IF e.err # nil
            THEN [recipient |-> nilRecipient, err |-> e.err,
                  local |-> <<>>, domain |-> <<>>]
            ELSE IF Len(e.addr.Address) > maxEmailLength
            THEN [recipient |-> nilRecipient, err |-> TotalLengthError,
                  local |-> <<>>, domain |-> <<>>]
            ELSE Parts(e, Split(e.addr.Address, "@"))
    IN  Parsed(ParseAddress(info))

\* The strings a caller passes
Rep(c, n) == [i \in 1..n |-> c]

LocalLens == {1, maxEmailLocalLength - 1, maxEmailLocalLength,
              maxEmailLocalLength + 1, 300}

DomainLens == {1, 20, maxEmailDomainLength, maxEmailDomainLength + 1}

\* The lengths before and after the "@" inside a quoted local part
QuotedSplits == {<<1, 1>>, <<30, 33>>, <<40, 40>>, <<65, 1>>,
                 <<1, maxEmailDomainLength + 1>>}

LocalParts ==
    {Rep("a", n) : n \in LocalLens}
    \cup {<<"\"">> \o Rep("a", q[1]) \o <<"@">> \o Rep("a", q[2]) \o <<"\"">> :
             q \in QuotedSplits}

Domains == {Rep("b", k) : k \in DomainLens}

AddrSpecs == {l \o <<"@">> \o d : l \in LocalParts, d \in Domains}

EmailInputs ==
    AddrSpecs
    \cup {<<"<">> \o a \o <<">">> : a \in AddrSpecs}
    \cup {<<"A", " ", "B", " ", "<">> \o a \o <<">">> : a \in AddrSpecs}
    \cup {<<>>, <<"a">>, <<"a", "@">>, <<"@", "b">>,
          <<"a", "@", "b", "@", "c">>, <<"<", "a", "@", "b">>,
          <<"A", " ", "B">>, <<"a", ".", ".", "a", "@", "b">>,
          <<"\"", "a", "@", "b">>, <<"\"", "\"", "@", "b">>}

NotParsed == [recipient |-> nilRecipient, err |-> nil,
              local |-> <<>>, domain |-> <<>>]

\* parsed, err = ParseEmail(emailInfo)
CallParseEmail ==
    /\ parsed = NotParsed
    /\ parsed' = ParseEmail(emailInfo)
    /\ UNCHANGED <<requestVars, mailVars, emailInfo>>

----------------------------------------------------------------------------
(* Specifications *)

InitRequest == request = NoRequest /\ err = nil /\ call = NoCall

InitMail == m = NewMailSendRequest /\ calls = <<>>

InitEmail == emailInfo = <<>> /\ parsed = NotParsed

\* The request builder
Init == InitRequest /\ InitMail /\ InitEmail

Next == CallGetRequest \/ CallGetRequestSubuser \/ CallNewSendClient

Spec == Init /\ [][Next]_vars

\* The region router, on the requests the builder makes
BuiltRequests ==
    {GetRequestSubuser("abc123", endpoint, host, subuser) :
        endpoint \in Endpoints, host \in Hosts, subuser \in Subusers}
    \cup {NewSendClient("abc123")}

InitRegion ==
    /\ request \in BuiltRequests
    /\ err = nil
    /\ call = NoCall
    /\ InitMail
    /\ InitEmail

NextRegion == CallSetDataResidency

SpecRegion == InitRegion /\ [][NextRegion]_vars

\* The payload builder
NextMail ==
    \/ CallAddRecipient
    \/ CallAddAttachment
    \/ CallAddRemoteAttachment
    \/ CallSetReplyTo
    \/ CallSetCustomParameter
    \/ CallSetScheduledAt
    \/ CallSetAllowClickTracking
    \/ CallSetAllowOpenTracking
    \/ CallSetBypassBounceControl
    \/ CallSetBypassUnsubscribeList
    \/ CallSetEnableViewInBrowser

SpecMail == Init /\ [][NextMail]_vars

\* The address validator
NextEmail == CallParseEmail

InitParse ==
    /\ InitRequest
    /\ InitMail
    /\ emailInfo \in EmailInputs
    /\ parsed = NotParsed

SpecEmail == InitParse /\ [][NextEmail]_vars

----------------------------------------------------------------------------
(* Claims about the request builder (Spec) *)

Built == call.op \in {"GetRequest", "GetRequestSubuser", "NewSendClient"}

C4_BaseURLIsHostThenEndpoint ==
    Built =>
        request.BaseURL =
            (IF call.host = <<>>
             THEN <<"h", "t", "t", "p", "s", ":", "/", "/", "w", "e", "b", "h",
                    "o", "o", "k", ".", "c", "o", "c", "o", "o", "n", "m", "a",
                    "i", "l", ".", "c", "o", "m">>
             ELSE call.host) \o call.endpoint

C4_Witness ==
    /\ call.op = "GetRequestSubuser"
    /\ call.host = <<>>
    /\ call.subuser # ""
    /\ call.key # ""
    /\ Len(call.endpoint) > 1
    /\ Len(request.BaseURL) = 30 + Len(call.endpoint)

\* C5: a built request carries the on-behalf-of header exactly when the
\* subuser is not empty, and then with the subuser as its value; GetRequest
\* and GetRequestSubuser with an empty subuser build the same request, in
\* which the header is absent.
C5_OnBehalfOfIffSubuser ==
    Built =>
        /\ "On-Behalf-Of" \in DOMAIN request.Headers <=> call.subuser # ""
        /\ call.subuser # "" =>
              request.Headers["On-Behalf-Of"] = call.subuser
        /\ call.op = "GetRequest" =>
              /\ "On-Behalf-Of" \notin DOMAIN request.Headers
              /\ request =
                     GetRequestSubuser(call.key, call.endpoint, call.host, "")

C5_Witness ==
    /\ call.op = "GetRequestSubuser"
    /\ call.subuser = "sub1"
    /\ request.Headers["On-Behalf-Of"] = "sub1"

----------------------------------------------------------------------------
(* Claims about the region router (SpecRegion) *)

Routed == call.op = "SetDataResidency"

Recognized(region) == region = "eu" \/ region = "global"

\* The error names the identifier: the identifier, quoted, is a word of it
Naming(error, identifier) ==
    \E i \in 1..Len(error) : error[i] = "\"" \o identifier \o "\""

\* C1, as stated: after a successful SetDataResidency with a region, a second
\* SetDataResidency with the same region succeeds and leaves the BaseURL as
\* the first one made it.
C1_Idempotent ==
    (Routed /\ err = nil) =>
        /\ SetDataResidency(request, call.region).err = nil
        /\ SetDataResidency(request, call.region).request.BaseURL
               = request.BaseURL

PathComponent(link) ==
    LET Hier(rest) ==
            IF HasPrefix(rest, <<"/", "/">>)
            THEN IF Index(SubSeq(rest, 3, Len(rest)), "/") = 0 THEN <<>>
                 ELSE SubSeq(rest, 2 + Index(SubSeq(rest, 3, Len(rest)), "/"),
                             Len(rest))
            ELSE rest
        Schemed(u, colon) ==
            IF colon > 1 /\ \A i \in 1..(colon - 1) : u[i] # "/"
            THEN Hier(From(u, colon))
            ELSE Hier(u)
        Cut(u) == Schemed(u, Index(u, ":"))
    IN  Cut(Before(Before(link, "#"), "?"))

\* C8, as stated: a successful SetDataResidency returns a request whose
\* BaseURL is the host of the region followed by the path component of the
\* BaseURL it was given, unchanged, with no second slash at the join.
C8_RegionHostThenPath ==
    (Routed /\ err = nil) =>
        /\ request.BaseURL =
               (IF call.region = "eu" THEN EUHost ELSE DefaultHost)
                   \o PathComponent(call.request.BaseURL)
        /\ PathComponent(request.BaseURL)
               = PathComponent(call.request.BaseURL)

----------------------------------------------------------------------------
(* Claims about the payload builder (SpecMail) *)

\* The arguments of the calls of one method, in call order, one after another
RECURSIVE Passed(_, _)
Passed(log, method) ==
    IF log = <<>> THEN <<>>
    ELSE IF log[1].method = method
    THEN log[1].args \o Passed(Tail(log), method)
    ELSE Passed(Tail(log), method)

\* The calls of SetCustomParameter with one key
SetsOf(key) ==
    {i \in 1..Len(calls) :
        calls[i].method = "SetCustomParameter" /\ calls[i].args[1] = key}

\* C9: To, Attachments and AttachmentsRemote are each the arguments of all
\* calls of their Add method, in call order; CustomParameter maps every key
\* ever set to the value set last (so a call changes no other collection).
C9_Accumulate ==
    /\ m.To.items = Passed(calls, "AddRecipient")
    /\ m.Attachments.items = Passed(calls, "AddAttachment")
    /\ m.AttachmentsRemote.items = Passed(calls, "AddRemoteAttachment")
    /\ DOMAIN m.CustomParameter.kv = {k \in ParamKeys : SetsOf(k) # {}}
    /\ \A k \in DOMAIN m.CustomParameter.kv :
          m.CustomParameter.kv[k] = calls[Last(SetsOf(k))].args[2]

C9_Witness ==
    /\ Len(calls) = 3
    /\ calls[1].method = "AddRecipient" /\ calls[1].args = <<"r2", "r1">>
    /\ calls[2].method = "AddAttachment" /\ calls[2].args = <<"a1">>
    /\ calls[3].method = "AddRecipient" /\ calls[3].args = <<"r1">>
    /\ m.To.items = <<"r2", "r1", "r1">>

\* C10: the four containers of a request are never nil, and are empty as
\* NewMailSendRequest returns it.
C10_ContainersNotNil ==
    /\ ~m.To.isNil
    /\ ~m.Attachments.isNil
    /\ ~m.AttachmentsRemote.isNil
    /\ ~m.CustomParameter.isNil
    /\ calls = <<>> =>
          /\ m.To.items = <<>>
          /\ m.Attachments.items = <<>>
          /\ m.AttachmentsRemote.items = <<>>
          /\ DOMAIN m.CustomParameter.kv = {}

C10_Witness ==
    /\ Len(calls) = 2
    /\ calls[1].method = "AddAttachment" /\ calls[1].args = <<>>
    /\ calls[2].method = "SetReplyTo"
    /\ m.Attachments.items = <<>>

----------------------------------------------------------------------------
(* Claims about the address validator (SpecEmail) *)

\* ParseEmail has returned for an address that mail.ParseAddress accepts
Valid == parsed # NotParsed /\ ParseAddress(emailInfo).err = nil

Address == ParseAddress(emailInfo).addr.Address

\* The local part and the domain of an address: around its last "@"
LocalPart(address) == Upto(address, LastIndex(address, "@"))

DomainPart(address) == From(address, LastIndex(address, "@"))

\* C6, as stated: of the limits on the total length, the domain length and
\* the local length, in this order, ParseEmail reports the first one the
\* address violates, and succeeds when it violates none.
C6_FirstViolatedLimit ==
    Valid =>
        parsed.err =
            IF Len(Address) > 320 THEN TotalLengthError
            ELSE IF Len(DomainPart(Address)) > 255 THEN DomainLengthError
            ELSE IF Len(LocalPart(Address)) > 64 THEN LocalLengthError
            ELSE nil

\* C7, as stated: the domain whose length ParseEmail checks is what follows
\* the last "@" of the address, and the local part whose length it checks is
\* all that precedes that "@".
C7_SplitAtLastAt ==
    (Valid /\ parsed.err # TotalLengthError) =>
        /\ Len(parsed.domain) = Len(DomainPart(Address))
        /\ Len(parsed.local) = Len(LocalPart(Address))

====
